---- MODULE Spec2Model ----
(***************************************************************************)
(* Model of the canva-to-outlook conversion server                         *)
(* (src/src/intents/design_editor/index.tsx): path normalisation, image    *)
(* collection, document selection, content-addressed upload to Cloudinary  *)
(* and HTML rewriting, as performed by app.post('/api/process'), and the    *)
(* document selection of the design-editor client (processFiles).          *)
(*                                                                         *)
(* A JavaScript string is a sequence of one-character strings, so that     *)
(* toLowerCase, indexOf, replace, substring and path.extname are computed  *)
(* character by character as the code computes them.                       *)
(***************************************************************************)
EXTENDS Integers, Sequences, FiniteSets, TLC

VARIABLES
  useSignedUpload,    \* index.tsx:32  API key + secret configured
  useUnsignedUpload,  \* index.tsx:31  upload preset configured
  cloud,              \* Cloudinary account: set of stored assets
  pc,                 \* per request: position in the /api/process handler
  files,              \* per request: req.files
  pos,                \* per request: index of the current imageFile in the loop
  imageUrlMap,        \* per request: index.tsx:253
  response,           \* per request: what res.status(..).json(..) sent
  storeCalls,         \* per request: number of upload_stream calls issued
  probeCalls,         \* per request: number of api.resource calls issued
  uploaded,           \* per request: log of the uploads that resolved
  rejected,           \* per request: indexes of imageFiles whose upload failed
  faults,             \* number of backend failures injected so far
  argPath,            \* input of the pure path functions
  argFiles,           \* input of the pure file-list functions
  fnRes,              \* result of the last pure function applied
  backendHost,        \* part_000:14  BACKEND_HOST is set in the build
  uiFiles,            \* part_001:20  files
  processedHtml,      \* part_001:21  << >> is null
  folderName,         \* part_001:22  << >> is null
  uiStatus,           \* part_001:23  status
  message,            \* part_001:24  << >> is null
  dialogOpen,         \* the file dialog of the hidden input is open
  extracting,         \* the archives of the extractZip calls not yet settled
  fetching,           \* the file lists of the fetch calls not yet settled
  copying             \* number of clipboard writes not yet settled

vars == << useSignedUpload, useUnsignedUpload, cloud, pc, files, pos,
           imageUrlMap, response, storeCalls, probeCalls, uploaded, rejected,
           faults, argPath, argFiles, fnRes, backendHost, uiFiles,
           processedHtml, folderName, uiStatus, message, dialogOpen,
           extracting, fetching, copying >>

uiVars == << backendHost, uiFiles, processedHtml, folderName, uiStatus,
             message, dialogOpen, extracting, fetching, copying >>

serverVars == << useSignedUpload, useUnsignedUpload, cloud, pc, files, pos,
                 imageUrlMap, response, storeCalls, probeCalls, uploaded,
                 rejected, faults >>

----------------------------------------------------------------------------
(* Bounds *)

MaxChunks == 3      \* a generated path is at most this many chunks long
MaxFiles == 2       \* a generated file list has at most this many entries
MaxFaults == 1      \* backend failures injected in one behaviour
MaxZipEntries == 3  \* an extracted archive has at most this many files
MaxPending == 2     \* asynchronous calls of one kind the client has pending

----------------------------------------------------------------------------
(* JavaScript string primitives *)

Min(S) == CHOOSE x \in S : \A y \in S : x <= y
Max(S) == CHOOSE x \in S : \A y \in S : x >= y

LowerChar(c) ==
  CASE c = "A" -> "a" [] c = "B" -> "b" [] c = "C" -> "c" [] c = "D" -> "d"
    [] c = "E" -> "e" [] c = "F" -> "f" [] c = "G" -> "g" [] c = "H" -> "h"
    [] c = "I" -> "i" [] c = "J" -> "j" [] c = "K" -> "k" [] c = "L" -> "l"
    [] c = "M" -> "m" [] c = "N" -> "n" [] c = "O" -> "o" [] c = "P" -> "p"
    [] c = "Q" -> "q" [] c = "R" -> "r" [] c = "S" -> "s" [] c = "T" -> "t"
    [] c = "U" -> "u" [] c = "V" -> "v" [] c = "W" -> "w" [] c = "X" -> "x"
    [] c = "Y" -> "y" [] c = "Z" -> "z" [] OTHER -> c

\* String.prototype.toLowerCase
toLowerCase(s) == [i \in 1..Len(s) |-> LowerChar(s[i])]

\* String.prototype.startsWith
startsWith(s, p) == Len(s) >= Len(p) /\ SubSeq(s, 1, Len(p)) = p

\* String.prototype.endsWith
endsWith(s, p) ==
  Len(s) >= Len(p) /\ SubSeq(s, Len(s) - Len(p) + 1, Len(s)) = p

\* String.prototype.indexOf: 0-based position of the first occurrence, or -1
indexOf(s, p) ==
  LET hits == {i \in 0..(Len(s) - Len(p)) : SubSeq(s, i + 1, i + Len(p)) = p}
  IN  IF hits = {} THEN -1 ELSE Min(hits)

\* String.prototype.includes
includes(s, p) == indexOf(s, p) >= 0

\* String.prototype.lastIndexOf for a one-character pattern, 0-based or -1
lastIndexOf(s, c) ==
  LET hits == {i \in 0..(Len(s) - 1) : s[i + 1] = c}
  IN  IF hits = {} THEN -1 ELSE Max(hits)

\* String.prototype.substring(from)
substring(s, from) == SubSeq(s, from + 1, Len(s))

\* s.replace(/\\/g, '/')
replaceBackslashes(s) ==
  [i \in 1..Len(s) |-> IF s[i] = "\\" THEN "/" ELSE s[i]]

\* p.replace(/^\.\.?\//, ''): removes one leading "./" or "../"
stripLeadingDotSlash(p) ==
  IF startsWith(p, <<".", "/">>) THEN substring(p, 2)
  ELSE IF startsWith(p, <<".", ".", "/">>) THEN substring(p, 3)
  ELSE p

S_images == <<"i", "m", "a", "g", "e", "s", "/">>
S_html == <<".", "h", "t", "m", "l">>
S_index_html == <<"i", "n", "d", "e", "x">> \o S_html
S_email_html == <<"e", "m", "a", "i", "l">> \o S_html

\* path.extname (POSIX): the extension of the last path component, trailing
\* slashes ignored; '' when that component has no dot, starts with its only
\* dot, or is ".."
extname(p) ==
  LET nonSlash == {i \in 1..Len(p) : p[i] # "/"}
      end == IF nonSlash = {} THEN 0 ELSE Max(nonSlash)
      slashes == {i \in 1..end : p[i] = "/"}
      startPart == IF slashes = {} THEN 1 ELSE Max(slashes) + 1
      dots == {i \in startPart..end : p[i] = "."}
      startDot == IF dots = {} THEN 0 ELSE Max(dots)
  IN  IF \/ startDot = 0
         \/ startDot = startPart
         \/ (end = startPart + 1 /\ p[startPart] = "." /\ p[end] = ".")
      THEN << >>
      ELSE SubSeq(p, startDot, end)

ImageExtensions ==
  { <<".", "p", "n", "g">>, <<".", "j", "p", "g">>,
    <<".", "j", "p", "e", "g">>, <<".", "g", "i", "f">>,
    <<".", "w", "e", "b", "p">> }

\* index.tsx:115
isImageFile(filename) == toLowerCase(extname(filename)) \in ImageExtensions

\* index.tsx:121
normalizeImagePath(p) ==
  LET n == toLowerCase(stripLeadingDotSlash(p))
      idx == indexOf(n, S_images)
  IN  IF idx > 0 THEN substring(n, idx) ELSE n

----------------------------------------------------------------------------
(* Request data *)

(* A file of req.files is [originalname, fieldname, buffer].  A buffer is a
   sequence of units.  In an image every unit is a byte.  In an HTML document
   the units 32 and 10 are the whitespace characters, and a unit of
   DOMAIN Markup is the source text of one element, which cheerio parses into
   the node Markup gives. *)

S_emails == <<"e", "m", "a", "i", "l", "s", "/">>
S_cdn == <<"h", "t", "t", "p", "s", ":", "/", "/", "c", "d", "n", "/">>
S_png == <<".", "p", "n", "g">>
S_a_png == <<"a">> \o S_png
S_b_png == <<"b">> \o S_png
S_x_png == <<"x">> \o S_png

NoAttr == << >>    \* an attribute that is absent or empty: !attr is true

Node(tag, src, href, rel, as) ==
  [tag |-> tag, src |-> src, href |-> href, rel |-> rel, as |-> as]

TextNode == Node("#text", NoAttr, NoAttr, "", "")

Markup ==
  [u \in 101..114 |->
     CASE u = 101 -> Node("img", S_images \o S_a_png, NoAttr, "", "")
       [] u = 102 -> Node("img", <<".", "/", "I", "m", "a", "g", "e", "s", "/",
                                   "A", ".", "P", "N", "G">>, NoAttr, "", "")
       [] u = 103 -> Node("img", <<".", ".", "/">> \o S_images \o S_b_png,
                          NoAttr, "", "")
       [] u = 104 -> Node("img", <<"a", "s", "s", "e", "t", "s", "/">>
                                   \o S_images \o S_a_png, NoAttr, "", "")
       [] u = 105 -> Node("img", S_images \o <<"s", "u", "b", "/">> \o S_x_png,
                          NoAttr, "", "")
       [] u = 106 -> Node("img", S_images \o <<"z", "z">> \o S_png,
                          NoAttr, "", "")
       [] u = 107 -> Node("img", <<"h", "t", "t", "p", ":", "/", "/", "h", "/">>
                                   \o S_a_png, NoAttr, "", "")
       [] u = 108 -> Node("link", NoAttr, S_images \o S_a_png,
                          "preload", "image")
       [] u = 109 -> Node("link", NoAttr, S_images \o S_a_png,
                          "stylesheet", "")
       [] u = 110 -> Node("a", NoAttr, S_images \o S_a_png, "", "")
       [] u = 111 -> Node("img", NoAttr, NoAttr, "", "")
       [] u = 112 -> Node("link", NoAttr, <<".", "/">> \o S_images \o S_x_png,
                          "preload", "image")
       [] u = 113 -> Node("script", S_images \o S_a_png, NoAttr, "", "")
       [] u = 114 -> Node("link", NoAttr, S_images \o S_a_png,
                          "preload", "script")]

Whitespace == {32, 10}

File(name, field, buffer) ==
  [originalname |-> name, fieldname |-> field, buffer |-> buffer]

\* String.prototype.trim on the text of a buffer
trim(b) ==
  LET ink == {i \in 1..Len(b) : b[i] \notin Whitespace}
  IN  IF ink = {} THEN << >> ELSE SubSeq(b, Min(ink), Max(ink))

\* cheerio.load: every unit becomes a node of the tree
load(htmlContent) ==
  [i \in 1..Len(htmlContent) |->
     IF htmlContent[i] \in DOMAIN Markup THEN Markup[htmlContent[i]]
     ELSE TextNode]

----------------------------------------------------------------------------
(* DocumentSelector: index.tsx:207-216 *)

isIndexHtml(file) ==
  LET name == toLowerCase(file.originalname)
  IN  name = S_index_html \/ includes(name, S_index_html)

isEmailHtml(file) ==
  LET name == toLowerCase(file.originalname)
  IN  name = S_email_html \/ includes(name, S_email_html)

isAnyHtml(file) == endsWith(toLowerCase(file.originalname), S_html)

matches(rule, file) ==
  CASE rule = "index" -> isIndexHtml(file)
    [] rule = "email" -> isEmailHtml(file)
    [] rule = "html" -> isAnyHtml(file)

\* find returning the last match instead of the first
RECURSIVE findLast(_, _, _)
findLast(fs, rule, i) ==
  IF i > Len(fs) THEN 0
  ELSE IF findLast(fs, rule, i + 1) # 0 THEN findLast(fs, rule, i + 1)
  ELSE IF matches(rule, fs[i]) THEN i
  ELSE 0

\* Array.prototype.find from position i: the index of the first match, 0 when
\* there is none (undefined)
RECURSIVE find(_, _, _)
find(fs, rule, i) ==
  IF i > Len(fs) THEN 0
  ELSE IF matches(rule, fs[i]) THEN i
  ELSE find(fs, rule, i + 1)

\* the chain with email.html tried before index.html
htmlFileEmailFirst(fs) ==
  IF find(fs, "email", 1) # 0 THEN find(fs, "email", 1)
  ELSE IF find(fs, "index", 1) # 0 THEN find(fs, "index", 1)
  ELSE find(fs, "html", 1)

\* the || chain of the three finds; 0 stands for undefined
htmlFile(fs) ==
  IF find(fs, "index", 1) # 0 THEN find(fs, "index", 1)
  ELSE IF find(fs, "email", 1) # 0 THEN find(fs, "email", 1)
  ELSE find(fs, "html", 1)

\* busboy's basename: what follows the last / of a part's filename
finalSegmentOf(filename) == substring(filename, lastIndexOf(filename, "/") + 1)

\* the design-editor client, part_001:63: relativePath.split("/").pop() ||
\* relativePath
clientName(path) ==
  IF substring(path, lastIndexOf(path, "/") + 1) = << >> THEN path
  ELSE substring(path, lastIndexOf(path, "/") + 1)

\* part_001:172-183: the rule the client's processFiles tests on a file
clientMatches(rule, file) ==
  CASE rule = "index" ->
         \/ toLowerCase(clientName(file.originalname)) = S_index_html
         \/ includes(toLowerCase(file.originalname), S_index_html)
    [] rule = "email" ->
         \/ toLowerCase(clientName(file.originalname)) = S_email_html
         \/ includes(toLowerCase(file.originalname), S_email_html)
    [] rule = "html" ->
         endsWith(toLowerCase(clientName(file.originalname)), S_html)

RECURSIVE clientFind(_, _, _)
clientFind(fs, rule, i) ==
  IF i > Len(fs) THEN 0
  ELSE IF clientMatches(rule, fs[i]) THEN i
  ELSE clientFind(fs, rule, i + 1)

\* the client's chain with email.html tried before index.html
clientHtmlFileEmailFirst(fs) ==
  IF clientFind(fs, "email", 1) # 0 THEN clientFind(fs, "email", 1)
  ELSE IF clientFind(fs, "index", 1) # 0 THEN clientFind(fs, "index", 1)
  ELSE clientFind(fs, "html", 1)

\* part_001:172-183: the document the client selects from the extracted
\* files (originalname holds the path inside the archive)
clientHtmlFile(fs) ==
  IF clientFind(fs, "index", 1) # 0 THEN clientFind(fs, "index", 1)
  ELSE IF clientFind(fs, "email", 1) # 0 THEN clientFind(fs, "email", 1)
  ELSE clientFind(fs, "html", 1)

----------------------------------------------------------------------------
(* ImageCollector: index.tsx:235-246 *)

\* the directory test without the backslash replacement of index.tsx:240
isInImagesDirNoBackslash(file) ==
  LET normalizedPath == toLowerCase(file.originalname)
  IN  \/ includes(normalizedPath, S_images)
      \/ file.fieldname = "images"
      \/ startsWith(normalizedPath, S_images)

isInImagesDir(file) ==
  LET normalizedPath == replaceBackslashes(toLowerCase(file.originalname))
  IN  \/ includes(normalizedPath, S_images)
      \/ file.fieldname = "images"
      \/ startsWith(normalizedPath, S_images)

isCollected(file) ==
  IF ~isImageFile(file.originalname) THEN FALSE ELSE isInImagesDir(file)

imageFiles(fs) == SelectSeq(fs, isCollected)

\* index.tsx:257-260
baseFilename(file) ==
  IF includes(file.originalname, <<"/">>)
  THEN substring(file.originalname, lastIndexOf(file.originalname, "/") + 1)
  ELSE file.originalname

\* a key taken from the whole original path
imagePathFull(file) == normalizeImagePath(file.originalname)

\* index.tsx:262
imagePath(file) == normalizeImagePath(S_images \o baseFilename(file))

----------------------------------------------------------------------------
(* ContentAddressedUploader: index.tsx:129-179, and the Cloudinary account *)

HexDigits == <<"0", "1", "2", "3", "4", "5", "6", "7",
               "8", "9", "a", "b", "c", "d", "e", "f">>

\* crypto.createHash('sha256').update(buffer).digest('hex').slice(0, 16):
\* a digest of the bytes alone, collision-free on the buffers of the model
sha256hex(buffer) ==
  [i \in 1..Len(buffer) |-> HexDigits[(buffer[i] % 16) + 1]]

\* a public id taken from the file name instead of the digest
publicIdFromFilename(buffer, filename) == S_emails \o filename

\* a public id made of the digest and the file name
publicIdDigestAndName(buffer, filename) ==
  S_emails \o sha256hex(buffer) \o <<"-">> \o filename

\* index.tsx:130-131
publicId(buffer, filename) == S_emails \o sha256hex(buffer)

\* the secure_url Cloudinary reports for an asset
secure_url(asset) == S_cdn \o asset.public_id

Asset(id, buffer) == [public_id |-> id, bytes |-> buffer]

\* cloudinary.api.resource(publicId): the assets stored under that id
resource(id) == {a \in cloud : a.public_id = id}

\* upload_stream under a public_id: the account keeps one asset per id
stored(id, buffer) ==
  {a \in cloud : a.public_id # id} \cup {Asset(id, buffer)}

----------------------------------------------------------------------------
(* HtmlRewriter: index.tsx:310-338 *)

\* the img pass selecting every element that has a src
rewriteAnySrc(node, map) ==
  IF node.src = NoAttr THEN node
  ELSE LET normalized == normalizeImagePath(node.src)
       IN  IF startsWith(normalized, S_images) /\ normalized \in DOMAIN map
           THEN [node EXCEPT !.src = map[normalized]]
           ELSE node

\* $('img').each
rewriteImg(node, map) ==
  IF node.tag # "img" \/ node.src = NoAttr THEN node
  ELSE LET normalized == normalizeImagePath(node.src)
       IN  IF startsWith(normalized, S_images) /\ normalized \in DOMAIN map
           THEN [node EXCEPT !.src = map[normalized]]
           ELSE node

\* $('link[rel="preload"][as="image"]').each
rewriteLink(node, map) ==
  IF node.tag # "link" \/ node.rel # "preload" \/ node.as # "image"
     \/ node.href = NoAttr
  THEN node
  ELSE LET normalized == normalizeImagePath(node.href)
       IN  IF startsWith(normalized, S_images) /\ normalized \in DOMAIN map
           THEN [node EXCEPT !.href = map[normalized]]
           ELSE node

\* both passes over the tree, then $.html()
rewrite(tree, map) ==
  [i \in 1..Len(tree) |-> rewriteLink(rewriteImg(tree[i], map), map)]

----------------------------------------------------------------------------
(* Responses of /api/process *)

NoResponse ==
  [status |-> 0, error |-> "", filename |-> << >>, keys |-> {},
   html |-> << >>, imageCount |-> 0]

ErrorResponse(status, kind, filename) ==
  [status |-> status, error |-> kind, filename |-> filename,
   keys |-> {"error"}, html |-> << >>, imageCount |-> 0]

\* index.tsx:344-348
SuccessResponse(html, count) ==
  [status |-> 200, error |-> "", filename |-> << >>,
   keys |-> {"html", "imageCount", "folder"},
   html |-> html, imageCount |-> count]

\* index.tsx:279-295: every upload error is answered with status 500
uploadErrorKind(fault) ==
  CASE fault = "auth" -> "UploadAuthFailed"
    [] fault = "preset" -> "InvalidUploadPreset"
    [] OTHER -> "UploadTransportFailed"

----------------------------------------------------------------------------
(* Requests the server receives *)

Reqs == {"r1", "r2"}

HtmlDoc == <<32, 101, 102, 103, 104, 105, 106, 107, 108, 109, 110, 111, 112,
             113, 114, 10>>
BlankDoc == <<32, 10>>
BytesB == <<1, 2>>
BytesC == <<3>>

IndexFile == File(S_index_html, "index.html", HtmlDoc)
ImageFile(name, buffer) == File(name, "images", buffer)

Bundles ==
  { << >>,
    << File(<<"n", "o", "t", "e", "s", ".", "t", "x", "t">>, "file", BytesB) >>,
    << File(S_index_html, "index.html", BlankDoc),
       ImageFile(S_images \o S_a_png, BytesB) >>,
    << IndexFile >>,
    << File(S_index_html, "index.html", BlankDoc) >>,
    << IndexFile,
       File(<<"p", "h", "o", "t", "o", "s", "/", "d", ".", "g", "i", "f">>,
            "file", BytesB),
       File(S_images \o <<"c", ".", "t", "x", "t">>, "images", BytesC) >>,
    << IndexFile, ImageFile(S_images \o S_a_png, BytesB) >>,
    << IndexFile, ImageFile(S_images \o S_a_png, BytesB),
       ImageFile(S_images \o S_b_png, BytesB) >>,
    << ImageFile(S_images \o <<"s", "u", "b", "/">> \o S_x_png, BytesC),
       IndexFile >>,
    << IndexFile,
       ImageFile(S_images \o <<"a", "/">> \o S_x_png, BytesB),
       ImageFile(S_images \o <<"b", "/", "X", ".", "P", "N", "G">>, BytesC) >>,
    << IndexFile, ImageFile(S_images \o S_a_png, << >>) >>,
    << IndexFile, ImageFile(S_images \o S_b_png, BytesC),
       ImageFile(S_images \o S_a_png, << >>) >>,
    << IndexFile,
       File(<<"i", "m", "a", "g", "e", "s", "\\">> \o S_a_png, "file", BytesB) >>,
    << IndexFile, File(S_a_png, "images", BytesC) >>,
    << File(S_email_html, "file", HtmlDoc),
       File(<<"I", "m", "a", "g", "e", "s", "/", "A", ".", "P", "N", "G">>,
            "file", BytesC) >> }

\* the text of the selected document: htmlFile.buffer.toString('utf-8')
htmlContent(fs) == fs[htmlFile(fs)].buffer

\* a map that keeps the first value written under a key
MapPutKeepFirst(m, k, v) ==
  [x \in (DOMAIN m) \cup {k} |-> IF x \in DOMAIN m THEN m[x] ELSE v]

MapPut(m, k, v) == [x \in (DOMAIN m) \cup {k} |-> IF x = k THEN v ELSE m[x]]

----------------------------------------------------------------------------
(* The /api/process handler, one request per element of Reqs *)

\* no pure function has been applied yet
NotApplied == [fn |-> "none"]

\* part_001:20-28: the state of App when it is mounted
InitApp ==
  /\ uiFiles = << >>
  /\ processedHtml = << >>
  /\ folderName = << >>
  /\ uiStatus = "idle"
  /\ message = << >>
  /\ dialogOpen = FALSE
  /\ extracting = << >>
  /\ fetching = << >>
  /\ copying = 0

Init ==
  /\ useSignedUpload \in BOOLEAN
  /\ useUnsignedUpload \in BOOLEAN
  /\ useSignedUpload \/ useUnsignedUpload          \* index.tsx:45-51
  /\ cloud = {}
  /\ pc = [r \in Reqs |-> "idle"]
  /\ files = [r \in Reqs |-> << >>]
  /\ pos = [r \in Reqs |-> 0]
  /\ imageUrlMap = [r \in Reqs |-> << >>]
  /\ response = [r \in Reqs |-> NoResponse]
  /\ storeCalls = [r \in Reqs |-> 0]
  /\ probeCalls = [r \in Reqs |-> 0]
  /\ uploaded = [r \in Reqs |-> << >>]
  /\ rejected = [r \in Reqs |-> {}]
  /\ faults = 0
  /\ argPath = << >>
  /\ argFiles = << >>
  /\ fnRes = NotApplied
  /\ backendHost = TRUE
  /\ InitApp

fnVars == << argPath, argFiles, fnRes >>
config == << useSignedUpload, useUnsignedUpload >>

\* multer hands the parsed multipart body to the handler
Receive(r) ==
  /\ pc[r] = "idle"
  /\ \E b \in Bundles : files' = [files EXCEPT ![r] = b]
  /\ pc' = [pc EXCEPT ![r] = "validate"]
  /\ UNCHANGED << config, cloud, pos, imageUrlMap, response, storeCalls,
                  probeCalls, uploaded, rejected, faults, fnVars, uiVars >>

\* res.status(..).json({error}) and return
fail(r, status, kind, filename) ==
  /\ response' = [response EXCEPT ![r] = ErrorResponse(status, kind, filename)]
  /\ pc' = [pc EXCEPT ![r] = "done"]

\* a validation that looks for the images before it looks for the document
validationImagesFirst(fs) ==
  IF Len(fs) = 0 THEN "NoFilesUploaded"
  ELSE IF Len(imageFiles(fs)) = 0 THEN "NoImagesFound"
  ELSE IF htmlFile(fs) = 0 THEN "NoDocumentFound"
  ELSE IF htmlContent(fs) = << >> \/ Len(trim(htmlContent(fs))) = 0
  THEN "EmptyDocument"
  ELSE ""

\* a validation that never looks at the collected images
validationNoImageCheck(fs) ==
  IF Len(fs) = 0 THEN "NoFilesUploaded"
  ELSE IF htmlFile(fs) = 0 THEN "NoDocumentFound"
  ELSE IF htmlContent(fs) = << >> \/ Len(trim(htmlContent(fs))) = 0
  THEN "EmptyDocument"
  ELSE ""

\* index.tsx:203-250: the first validation that fails, "" when all pass
validation(fs) ==
  IF Len(fs) = 0 THEN "NoFilesUploaded"
  ELSE IF htmlFile(fs) = 0 THEN "NoDocumentFound"
  ELSE IF htmlContent(fs) = << >> \/ Len(trim(htmlContent(fs))) = 0
  THEN "EmptyDocument"
  ELSE IF Len(imageFiles(fs)) = 0 THEN "NoImagesFound"
  ELSE ""

\* index.tsx:201-253
Validate(r) ==
  /\ pc[r] = "validate"
  /\ IF validation(files[r]) # ""
     THEN fail(r, 400, validation(files[r]), << >>) /\ UNCHANGED pos
     ELSE /\ pos' = [pos EXCEPT ![r] = 1]
          /\ pc' = [pc EXCEPT ![r] = "loop"]
          /\ UNCHANGED response
  /\ UNCHANGED << config, cloud, files, imageUrlMap, storeCalls, probeCalls,
                  uploaded, rejected, faults, fnVars, uiVars >>

\* the imageFile the loop of index.tsx:255 is at
current(r) == imageFiles(files[r])[pos[r]]

\* a loop that leaves for the rewriting while its last image is still to be
\* uploaded
LoopHeadSkipLast(r) ==
  /\ pc[r] = "loop"
  /\ IF pos[r] >= Len(imageFiles(files[r]))
     THEN /\ pc' = [pc EXCEPT ![r] = "rewrite"]
          /\ UNCHANGED << response, rejected, storeCalls, probeCalls >>
     ELSE IF Len(current(r).buffer) = 0
     THEN /\ fail(r, 400, "EmptyAsset", baseFilename(current(r)))
          /\ rejected' = [rejected EXCEPT ![r] = @ \cup {pos[r]}]
          /\ UNCHANGED << storeCalls, probeCalls >>
     ELSE IF useSignedUpload
     THEN /\ pc' = [pc EXCEPT ![r] = "probe"]
          /\ probeCalls' = [probeCalls EXCEPT ![r] = @ + 1]
          /\ UNCHANGED << response, rejected, storeCalls >>
     ELSE /\ pc' = [pc EXCEPT ![r] = "store"]
          /\ storeCalls' = [storeCalls EXCEPT ![r] = @ + 1]
          /\ UNCHANGED << response, rejected, probeCalls >>
  /\ UNCHANGED << config, cloud, files, pos, imageUrlMap, uploaded, faults,
                  fnVars, uiVars >>

\* a turn of the loop without the empty-buffer check of index.tsx:266
LoopHeadNoEmptyCheck(r) ==
  /\ pc[r] = "loop"
  /\ IF pos[r] > Len(imageFiles(files[r]))
     THEN /\ pc' = [pc EXCEPT ![r] = "rewrite"]
          /\ UNCHANGED << response, rejected, storeCalls, probeCalls >>
     ELSE IF useSignedUpload
     THEN /\ pc' = [pc EXCEPT ![r] = "probe"]
          /\ probeCalls' = [probeCalls EXCEPT ![r] = @ + 1]
          /\ UNCHANGED << response, rejected, storeCalls >>
     ELSE /\ pc' = [pc EXCEPT ![r] = "store"]
          /\ storeCalls' = [storeCalls EXCEPT ![r] = @ + 1]
          /\ UNCHANGED << response, rejected, probeCalls >>
  /\ UNCHANGED << config, cloud, files, pos, imageUrlMap, uploaded, faults,
                  fnVars, uiVars >>

\* a turn of the loop that never probes before it stores
LoopHeadNoProbe(r) ==
  /\ pc[r] = "loop"
  /\ IF pos[r] > Len(imageFiles(files[r]))
     THEN /\ pc' = [pc EXCEPT ![r] = "rewrite"]
          /\ UNCHANGED << response, rejected, storeCalls, probeCalls >>
     ELSE IF Len(current(r).buffer) = 0
     THEN /\ fail(r, 400, "EmptyAsset", baseFilename(current(r)))
          /\ rejected' = [rejected EXCEPT ![r] = @ \cup {pos[r]}]
          /\ UNCHANGED << storeCalls, probeCalls >>
     ELSE /\ pc' = [pc EXCEPT ![r] = "store"]
          /\ storeCalls' = [storeCalls EXCEPT ![r] = @ + 1]
          /\ UNCHANGED << response, rejected, probeCalls >>
  /\ UNCHANGED << config, cloud, files, pos, imageUrlMap, uploaded, faults,
                  fnVars, uiVars >>

\* index.tsx:255-272 and 130-157: one turn of the loop, up to the first call
\* uploadImageToCloudinary makes to Cloudinary
LoopHead(r) ==
  /\ pc[r] = "loop"
  /\ IF pos[r] > Len(imageFiles(files[r]))
     THEN /\ pc' = [pc EXCEPT ![r] = "rewrite"]
          /\ UNCHANGED << response, rejected, storeCalls, probeCalls >>
     ELSE IF Len(current(r).buffer) = 0
     THEN /\ fail(r, 400, "EmptyAsset", baseFilename(current(r)))
          /\ rejected' = [rejected EXCEPT ![r] = @ \cup {pos[r]}]
          /\ UNCHANGED << storeCalls, probeCalls >>
     ELSE IF useSignedUpload
     THEN /\ pc' = [pc EXCEPT ![r] = "probe"]
          /\ probeCalls' = [probeCalls EXCEPT ![r] = @ + 1]
          /\ UNCHANGED << response, rejected, storeCalls >>
     ELSE /\ pc' = [pc EXCEPT ![r] = "store"]
          /\ storeCalls' = [storeCalls EXCEPT ![r] = @ + 1]
          /\ UNCHANGED << response, rejected, probeCalls >>
  /\ UNCHANGED << config, cloud, files, pos, imageUrlMap, uploaded, faults,
                  fnVars, uiVars >>

\* index.tsx:276: the upload resolved with url; the loop goes on
uploadResolved(r, url, via) ==
  /\ imageUrlMap' = [imageUrlMap EXCEPT ![r] = MapPut(@, imagePath(current(r)), url)]
  /\ uploaded' = [uploaded EXCEPT ![r] =
                    Append(@, [pos |-> pos[r],
                               originalname |-> current(r).originalname,
                               bytes |-> current(r).buffer,
                               public_id |-> publicId(current(r).buffer,
                                                      baseFilename(current(r))),
                               url |-> url, via |-> via])]
  /\ pos' = [pos EXCEPT ![r] = @ + 1]
  /\ pc' = [pc EXCEPT ![r] = "loop"]
  /\ UNCHANGED << response, rejected >>

\* a catch block that answers every upload error with status 400
uploadFailedClientError(r, fault) ==
  /\ fail(r, 400, uploadErrorKind(fault), baseFilename(current(r)))
  /\ rejected' = [rejected EXCEPT ![r] = @ \cup {pos[r]}]
  /\ UNCHANGED << imageUrlMap, uploaded, pos >>

\* a catch block that answers 500 but does not return
uploadFailedNoReturn(r, fault) ==
  /\ response' = [response EXCEPT ![r] =
       ErrorResponse(500, uploadErrorKind(fault), baseFilename(current(r)))]
  /\ rejected' = [rejected EXCEPT ![r] = @ \cup {pos[r]}]
  /\ pos' = [pos EXCEPT ![r] = @ + 1]
  /\ pc' = [pc EXCEPT ![r] = "loop"]
  /\ UNCHANGED << imageUrlMap, uploaded >>

\* a catch block that logs the error and lets the loop go on
uploadFailedContinue(r, fault) ==
  /\ rejected' = [rejected EXCEPT ![r] = @ \cup {pos[r]}]
  /\ pos' = [pos EXCEPT ![r] = @ + 1]
  /\ pc' = [pc EXCEPT ![r] = "loop"]
  /\ UNCHANGED << response, imageUrlMap, uploaded >>

\* index.tsx:277-296: the upload threw; the handler answers 500 and returns
uploadFailed(r, fault) ==
  /\ fail(r, 500, uploadErrorKind(fault), baseFilename(current(r)))
  /\ rejected' = [rejected EXCEPT ![r] = @ \cup {pos[r]}]
  /\ UNCHANGED << imageUrlMap, uploaded, pos >>

\* a probe that finds the asset and uploads the bytes all the same
ProbeFoundAndStore(r) ==
  /\ pc[r] = "probe"
  /\ resource(publicId(current(r).buffer, baseFilename(current(r)))) # {}
  /\ pc' = [pc EXCEPT ![r] = "store"]
  /\ storeCalls' = [storeCalls EXCEPT ![r] = @ + 1]
  /\ UNCHANGED << config, cloud, files, pos, imageUrlMap, response, probeCalls,
                  uploaded, rejected, faults, fnVars, uiVars >>

\* index.tsx:136-138: api.resource finds the asset
ProbeFound(r) ==
  /\ pc[r] = "probe"
  /\ \E a \in resource(publicId(current(r).buffer, baseFilename(current(r)))) :
       uploadResolved(r, secure_url(a), "probe")
  /\ UNCHANGED << config, cloud, files, storeCalls, probeCalls, faults, fnVars, uiVars >>

\* index.tsx:139-157: api.resource answers 404; upload_stream is called
ProbeNotFound(r) ==
  /\ pc[r] = "probe"
  /\ resource(publicId(current(r).buffer, baseFilename(current(r)))) = {}
  /\ pc' = [pc EXCEPT ![r] = "store"]
  /\ storeCalls' = [storeCalls EXCEPT ![r] = @ + 1]
  /\ UNCHANGED << config, cloud, files, pos, imageUrlMap, response, probeCalls,
                  uploaded, rejected, faults, fnVars, uiVars >>

\* index.tsx:139-141: api.resource fails with anything but 404
ProbeFail(r) ==
  /\ pc[r] = "probe"
  /\ faults < MaxFaults
  /\ faults' = faults + 1
  /\ \E fault \in {"auth", "transport"} : uploadFailed(r, fault)
  /\ UNCHANGED << config, cloud, files, storeCalls, probeCalls, fnVars, uiVars >>

\* index.tsx:157-168: upload_stream stores the bytes and reports the url
StoreOk(r) ==
  /\ pc[r] = "store"
  /\ LET id == publicId(current(r).buffer, baseFilename(current(r)))
     IN  /\ cloud' = stored(id, current(r).buffer)
         /\ uploadResolved(r, secure_url(Asset(id, current(r).buffer)), "store")
  /\ UNCHANGED << config, files, storeCalls, probeCalls, faults, fnVars, uiVars >>

\* a failure handler that destroys what the request has uploaded so far
StoreFailRollback(r) ==
  /\ pc[r] = "store"
  /\ faults < MaxFaults
  /\ faults' = faults + 1
  /\ \E fault \in {"auth", "preset", "transport"} :
       /\ fault = "preset" => useUnsignedUpload
       /\ uploadFailed(r, fault)
  /\ cloud' = {a \in cloud :
                 \A k \in 1..Len(uploaded[r]) :
                   uploaded[r][k].public_id # a.public_id}
  /\ UNCHANGED << config, files, storeCalls, probeCalls, fnVars, uiVars >>

\* index.tsx:160-175: upload_stream reports an error
StoreFail(r) ==
  /\ pc[r] = "store"
  /\ faults < MaxFaults
  /\ faults' = faults + 1
  /\ \E fault \in {"auth", "preset", "transport"} :
       /\ fault = "preset" => useUnsignedUpload
       /\ uploadFailed(r, fault)
  /\ UNCHANGED << config, cloud, files, storeCalls, probeCalls, fnVars, uiVars >>

\* a response that counts the keys of the map instead of the images
RewriteCountKeys(r) ==
  /\ pc[r] = "rewrite"
  /\ response' = [response EXCEPT ![r] =
       SuccessResponse(rewrite(load(htmlContent(files[r])), imageUrlMap[r]),
                       Cardinality(DOMAIN imageUrlMap[r]))]
  /\ pc' = [pc EXCEPT ![r] = "done"]
  /\ UNCHANGED << config, cloud, files, pos, imageUrlMap, storeCalls,
                  probeCalls, uploaded, rejected, faults, fnVars, uiVars >>

\* index.tsx:299-348
Rewrite(r) ==
  /\ pc[r] = "rewrite"
  /\ response' = [response EXCEPT ![r] =
       SuccessResponse(rewrite(load(htmlContent(files[r])), imageUrlMap[r]),
                       Len(imageFiles(files[r])))]
  /\ pc' = [pc EXCEPT ![r] = "done"]
  /\ UNCHANGED << config, cloud, files, pos, imageUrlMap, storeCalls,
                  probeCalls, uploaded, rejected, faults, fnVars, uiVars >>

Next ==
  \E r \in Reqs :
    \/ Receive(r)
    \/ Validate(r)
    \/ LoopHead(r)
    \/ ProbeFound(r)
    \/ ProbeNotFound(r)
    \/ ProbeFail(r)
    \/ StoreOk(r)
    \/ StoreFail(r)
    \/ Rewrite(r)

Spec == Init /\ [][Next]_vars

----------------------------------------------------------------------------
(* The pure functions of the pipeline applied to generated inputs *)

Chunks ==
  { <<".", "/">>, <<".", ".", "/">>, <<".", ".", "\\">>,
    S_images, <<"I", "m", "a", "g", "e", "s", "/">>,
    <<"i", "m", "a", "g", "e", "s", "\\">>,
    <<"F", "o", "o", ".", "P", "N", "G">>, <<"a", "/">>, <<"x">> }

RECURSIVE PathsUpTo(_)
PathsUpTo(n) ==
  IF n = 0 THEN {<< >>}
  ELSE PathsUpTo(n - 1) \cup {p \o c : p \in PathsUpTo(n - 1), c \in Chunks}

Names ==
  { S_index_html,
    <<"a", "s", "s", "e", "t", "s", "/", "I", "N", "D", "E", "X">> \o S_html,
    S_email_html,
    <<"x", "-">> \o S_email_html \o <<".", "t", "x", "t">>,
    <<"o", "t", "h", "e", "r", ".", "H", "T", "M", "L">>,
    <<"n", "o", "t", "e", "s", ".", "t", "x", "t">>,
    S_images \o S_a_png,
    S_a_png,
    <<"I", "M", "A", "G", "E", "S", "\\", "B", ".", "J", "P", "G">>,
    S_images \o <<"c", ".", "t", "x", "t">>,
    <<"p", "h", "o", "t", "o", "s", "/", "d", ".", "g", "i", "f">>,
    S_images \o S_png,
    <<"m", "y">> \o S_images \o <<"e", ".", "w", "e", "b", "p">>,
    <<".", "/">> \o S_images \o <<"f", ".", "j", "p", "e", "g">> }

Entries == {File(n, f, BytesB) : n \in Names, f \in {"images", "file"}}

RECURSIVE ListsUpTo(_)
ListsUpTo(n) ==
  IF n = 0 THEN {<< >>}
  ELSE ListsUpTo(n - 1) \cup
       {Append(l, e) : l \in ListsUpTo(n - 1), e \in Entries}

InitServerIdle ==
  /\ useSignedUpload = TRUE
  /\ useUnsignedUpload = FALSE
  /\ cloud = {}
  /\ pc = [r \in Reqs |-> "idle"]
  /\ files = [r \in Reqs |-> << >>]
  /\ pos = [r \in Reqs |-> 0]
  /\ imageUrlMap = [r \in Reqs |-> << >>]
  /\ response = [r \in Reqs |-> NoResponse]
  /\ storeCalls = [r \in Reqs |-> 0]
  /\ probeCalls = [r \in Reqs |-> 0]
  /\ uploaded = [r \in Reqs |-> << >>]
  /\ rejected = [r \in Reqs |-> {}]
  /\ faults = 0

InitNormalize ==
  /\ InitServerIdle
  /\ argPath \in PathsUpTo(MaxChunks)
  /\ argFiles = << >>
  /\ fnRes = NotApplied
  /\ backendHost = TRUE
  /\ InitApp

ApplyNormalize ==
  /\ fnRes' = [fn |-> "normalizeImagePath", out |-> normalizeImagePath(argPath)]
  /\ UNCHANGED << serverVars, argPath, argFiles, uiVars >>

SpecNormalize == InitNormalize /\ [][ApplyNormalize]_vars

InitFiles ==
  /\ InitServerIdle
  /\ argPath = << >>
  /\ argFiles \in ListsUpTo(MaxFiles)
  /\ fnRes = NotApplied
  /\ backendHost = TRUE
  /\ InitApp

\* DocumentSelector on the list, and what the handler answers for it
ApplySelect ==
  /\ fnRes' = [fn |-> "htmlFile", out |-> htmlFile(argFiles),
               outcome |-> validation(argFiles)]
  /\ UNCHANGED << serverVars, argPath, argFiles, uiVars >>

\* ImageCollector on the list
ApplyCollect ==
  /\ fnRes' = [fn |-> "imageFiles", out |-> imageFiles(argFiles)]
  /\ UNCHANGED << serverVars, argPath, argFiles, uiVars >>

\* the client's document selection on the list
ApplyClientSelect ==
  /\ fnRes' = [fn |-> "clientHtmlFile", out |-> clientHtmlFile(argFiles)]
  /\ UNCHANGED << serverVars, argPath, argFiles, uiVars >>

NextFiles == ApplySelect \/ ApplyCollect \/ ApplyClientSelect

SpecFiles == InitFiles /\ [][NextFiles]_vars

----------------------------------------------------------------------------
(* The design-editor client: part_001.  An extracted file is a File whose
   originalname holds its path inside the archive. *)

S_jpg == <<".", "j", "p", "g">>
S_jpeg == <<".", "j", "p", "e", "g">>
S_imagesBackslash == <<"i", "m", "a", "g", "e", "s", "\\">>

\* part_001:142
hasHtml(fs) ==
  \E i \in 1..Len(fs) :
    endsWith(toLowerCase(clientName(fs[i].originalname)), S_html)

\* part_001:143-150 and 197-203: the test of hasImages and of the forEach
clientIsImage(file) ==
  LET nl == toLowerCase(clientName(file.originalname))
      pl == toLowerCase(file.originalname)
  IN  /\ endsWith(nl, S_png) \/ endsWith(nl, S_jpg) \/ endsWith(nl, S_jpeg)
      /\ includes(pl, S_images) \/ includes(pl, S_imagesBackslash)

\* part_001:143
hasImages(fs) == \E i \in 1..Len(fs) : clientIsImage(fs[i])

\* part_001:151
isReady(fs) == hasHtml(fs) /\ hasImages(fs)

\* index.tsx:104-111: multer is set up without preservePath; the part's
\* filename reaches the handler whole or cut to its final segment
multerName(filename, preservePath) ==
  IF preservePath THEN filename ELSE finalSegmentOf(filename)

RECURSIVE appendImages(_, _, _)
\* part_001:197-206
appendImages(fs, i, preservePath) ==
  IF i > Len(fs) THEN << >>
  ELSE (IF clientIsImage(fs[i])
        THEN << File(multerName(replaceBackslashes(fs[i].originalname),
                                preservePath),
                     "images", fs[i].buffer) >>
        ELSE << >>)
       \o appendImages(fs, i + 1, preservePath)

\* part_001:169-206: the multipart body as req.files receives it; the
\* document travels under the name of its File, which is the entry's name
formData(fs, preservePath) ==
  << File(multerName(clientName(fs[clientHtmlFile(fs)].originalname),
                     preservePath),
          "index.html", fs[clientHtmlFile(fs)].buffer) >>
  \o appendImages(fs, 1, preservePath)

ZipPaths ==
  { S_index_html,
    <<"p", "a", "g", "e">> \o S_html,
    S_index_html \o <<".", "d", "/", "n", "o", "t", "e", "s", ".", "t", "x", "t">>,
    S_images \o S_a_png,
    S_images \o S_png,
    <<"I", "M", "A", "G", "E", "S", "\\", "B", ".", "J", "P", "G">>,
    <<"m", "a", "i", "l", "/">> \o S_email_html }

\* the content JSZip extracts for a path
ZipEntry(path) ==
  File(path, "file", IF endsWith(toLowerCase(path), S_html) THEN HtmlDoc
                     ELSE BytesB)

RECURSIVE ZipsUpTo(_)
\* the file lists an archive can hold: its paths are distinct
ZipsUpTo(n) ==
  IF n = 0 THEN {<< >>}
  ELSE ZipsUpTo(n - 1) \cup
       UNION {{Append(l, ZipEntry(q)) :
                 q \in {x \in ZipPaths :
                          \A k \in 1..Len(l) : l[k].originalname # x}} :
              l \in ZipsUpTo(n - 1)}

InitClient ==
  /\ InitServerIdle
  /\ argPath = << >>
  /\ argFiles \in ZipsUpTo(MaxZipEntries)
  /\ fnRes = NotApplied
  /\ backendHost = TRUE
  /\ InitApp

\* processFiles on the extracted list, and the handler's validation of the
\* request it sends
ApplyProcessFiles ==
  /\ IF ~isReady(argFiles)
     THEN fnRes' = [fn |-> "processFiles", ready |-> FALSE]
     ELSE \E preservePath \in BOOLEAN :
            fnRes' = [fn |-> "processFiles",
                      ready |-> TRUE,
                      doc |-> clientHtmlFile(argFiles),
                      request |-> formData(argFiles, preservePath),
                      serverDoc |-> htmlFile(formData(argFiles, preservePath)),
                      outcome |-> validation(formData(argFiles, preservePath))]
  /\ UNCHANGED << serverVars, argPath, argFiles, uiVars >>

SpecClient == InitClient /\ [][ApplyProcessFiles]_vars

----------------------------------------------------------------------------
(* The design-editor UI: part_001:18-467.  createRoot batches the state
   updates of one handler run, so each run of a handler up to its next await
   is one step.  dragOver only styles the drop zone and is left out. *)

S_zip == <<".", "z", "i", "p">>

\* a file the user drops or picks: its name, what JSZip finds in it, and
\* whether JSZip can read it at all
Picked(name, entries, readable) ==
  [name |-> name, files |-> entries, readable |-> readable]

PickedFiles ==
  { Picked(<<"a">> \o S_zip,
           << ZipEntry(S_index_html), ZipEntry(S_images \o S_a_png) >>, TRUE),
    Picked(<<"e">> \o S_zip, << >>, TRUE),
    Picked(<<"c">> \o S_zip,
           << ZipEntry(<<"p", "a", "g", "e">> \o S_html) >>, TRUE),
    Picked(<<"x">> \o S_zip, << >>, FALSE),
    Picked(S_a_png, << >>, FALSE) }

Message(text, type) == << [text |-> text, type |-> type] >>

Remove(seq, i) == SubSeq(seq, 1, i - 1) \o SubSeq(seq, i + 1, Len(seq))

\* part_001:345-363: the drop zone is rendered
dropZoneShown == uiStatus \notin {"converting", "done"}

\* part_001:103-124
onDrop(f) ==
  /\ dropZoneShown /\ ~dialogOpen
  /\ IF endsWith(f.name, S_zip)
     THEN /\ Len(extracting) < MaxPending
          /\ folderName' = << f.name >>
          /\ extracting' = Append(extracting, f)
          /\ UNCHANGED message
     ELSE /\ message' = Message("wrongFileType", "error")
          /\ UNCHANGED << folderName, extracting >>
  /\ UNCHANGED << serverVars, fnVars, backendHost, uiFiles, processedHtml,
                  uiStatus, dialogOpen, fetching, copying >>

\* part_001:364: a click on the drop zone opens the dialog of the input
openDialog ==
  /\ dropZoneShown /\ ~dialogOpen
  /\ dialogOpen' = TRUE
  /\ UNCHANGED << serverVars, fnVars, backendHost, uiFiles, processedHtml,
                  folderName, uiStatus, message, extracting, fetching,
                  copying >>

\* part_001:126-136: the input, mounted unless status is done, changes
onFileSelect(f) ==
  /\ dialogOpen /\ uiStatus # "done"
  /\ dialogOpen' = FALSE
  /\ IF endsWith(f.name, S_zip)
     THEN /\ Len(extracting) < MaxPending
          /\ folderName' = << f.name >>
          /\ extracting' = Append(extracting, f)
     ELSE UNCHANGED << folderName, extracting >>
  /\ UNCHANGED << serverVars, fnVars, backendHost, uiFiles, processedHtml,
                  uiStatus, message, fetching, copying >>

\* the user closes the dialog without a file
cancelDialog ==
  /\ dialogOpen
  /\ dialogOpen' = FALSE
  /\ UNCHANGED << serverVars, fnVars, backendHost, uiFiles, processedHtml,
                  folderName, uiStatus, message, extracting, fetching,
                  copying >>

\* part_001:56-100: extractZip goes on after zip.loadAsync has settled
extractZipSettles(i) ==
  /\ i \in 1..Len(extracting)
  /\ extracting' = Remove(extracting, i)
  /\ IF ~extracting[i].readable
     THEN /\ message' = Message("cantOpen", "error")
          /\ UNCHANGED << uiFiles, uiStatus >>
     ELSE IF Len(extracting[i].files) = 0
     THEN /\ message' = Message("emptyFile", "error")
          /\ UNCHANGED << uiFiles, uiStatus >>
     ELSE /\ uiFiles' = extracting[i].files
          /\ uiStatus' = "has-files"
          /\ UNCHANGED message
  /\ UNCHANGED << serverVars, fnVars, backendHost, processedHtml, folderName,
                  dialogOpen, fetching, copying >>

RECURSIVE finalMap(_, _)
\* index.tsx:255-276 when every upload resolves: the map after the first n
\* collected images
finalMap(imgs, n) ==
  IF n = 0 THEN << >>
  ELSE MapPut(finalMap(imgs, n - 1), imagePath(imgs[n]),
              secure_url(Asset(publicId(imgs[n].buffer, baseFilename(imgs[n])),
                               imgs[n].buffer)))

\* index.tsx:203-348: what the handler can answer to req.files = req
answers(req) ==
  IF validation(req) # ""
  THEN {ErrorResponse(400, validation(req), << >>)}
  ELSE {SuccessResponse(rewrite(load(htmlContent(req)),
                                finalMap(imageFiles(req),
                                         Len(imageFiles(req)))),
                        Len(imageFiles(req)))}
       \cup {ErrorResponse(500, kind, << >>) :
               kind \in {"UploadAuthFailed", "UploadTransportFailed"}}

\* part_001:208-224: res.ok, res.status and the parsed body of a response
Result(resp) ==
  [ok |-> resp.status \in 200..299, status |-> resp.status,
   error |-> resp.error, html |-> resp.html]

\* fetch rejects: the backend cannot be reached
NetworkFailure ==
  [ok |-> FALSE, status |-> 0, error |-> "Failed to fetch", html |-> << >>]

\* something other than the handler answers 200 with a body without html
OkWithoutHtml == [ok |-> TRUE, status |-> 200, error |-> "", html |-> << >>]

\* part_001:208: what await fetch(...) and res.json() can give for the files
results(fs) ==
  {Result(a) : a \in answers(formData(fs, TRUE)) \cup answers(formData(fs, FALSE))}
  \cup {NetworkFailure, OkWithoutHtml}

\* results, computed once for the lists the user can submit
resultsOf ==
  [fs \in {f.files : f \in {g \in PickedFiles : isReady(g.files)}}
     |-> results(fs)]

\* part_001:442-450: the convert button is rendered
convertButtonShown == uiStatus = "has-files" /\ isReady(uiFiles)

\* part_001:157-211: processFiles up to await fetch
processFiles ==
  /\ convertButtonShown /\ ~dialogOpen
  /\ isReady(uiFiles)
  /\ IF ~backendHost
     THEN /\ message' = Message("Backend not configured", "error")
          /\ uiStatus' = "has-files"
          /\ UNCHANGED fetching
     ELSE IF clientHtmlFile(uiFiles) = 0
     THEN /\ message' = Message("invalidExport", "error")
          /\ uiStatus' = "has-files"
          /\ UNCHANGED fetching
     ELSE /\ Len(fetching) < MaxPending
          /\ uiStatus' = "converting"
          /\ message' = << >>
          /\ fetching' = Append(fetching, uiFiles)
  /\ UNCHANGED << serverVars, fnVars, backendHost, uiFiles, processedHtml,
                  folderName, dialogOpen, extracting, copying >>

\* a continuation that takes every ok response for a converted document
fetchSettlesNoHtmlCheck(i) ==
  /\ i \in 1..Len(fetching)
  /\ fetching' = Remove(fetching, i)
  /\ \E result \in resultsOf[fetching[i]] :
       IF ~result.ok
       THEN /\ message' = Message(result.error, "error")
            /\ uiStatus' = "has-files"
            /\ UNCHANGED processedHtml
       ELSE /\ processedHtml' = << result.html >>
            /\ uiStatus' = "done"
            /\ UNCHANGED message
  /\ UNCHANGED << serverVars, fnVars, backendHost, uiFiles, folderName,
                  dialogOpen, extracting, copying >>

\* part_001:213-247: processFiles goes on after fetch has settled
fetchSettles(i) ==
  /\ i \in 1..Len(fetching)
  /\ fetching' = Remove(fetching, i)
  /\ \E result \in resultsOf[fetching[i]] :
       IF ~result.ok
       THEN /\ message' = Message(result.error, "error")
            /\ uiStatus' = "has-files"
            /\ UNCHANGED processedHtml
       ELSE IF result.html = << >>
       THEN /\ message' = Message("serverError", "error")
            /\ uiStatus' = "has-files"
            /\ UNCHANGED processedHtml
       ELSE /\ processedHtml' = << result.html >>
            /\ uiStatus' = "done"
            /\ UNCHANGED message
  /\ UNCHANGED << serverVars, fnVars, backendHost, uiFiles, folderName,
                  dialogOpen, extracting, copying >>

\* part_001:319 and 400-408: a button that calls reset is rendered
resetButtonShown ==
  \/ uiStatus = "done"
  \/ folderName # << >> /\ uiStatus = "has-files"

\* part_001:45-51
reset ==
  /\ resetButtonShown /\ ~dialogOpen
  /\ uiFiles' = << >>
  /\ processedHtml' = << >>
  /\ folderName' = << >>
  /\ uiStatus' = "idle"
  /\ message' = << >>
  /\ UNCHANGED << serverVars, fnVars, backendHost, dialogOpen, extracting,
                  fetching, copying >>

\* part_001:254-258: copyHtml up to await writeText
copyHtml ==
  /\ uiStatus = "done" /\ ~dialogOpen
  /\ processedHtml # << >>
  /\ copying < MaxPending
  /\ copying' = copying + 1
  /\ UNCHANGED << serverVars, fnVars, backendHost, uiFiles, processedHtml,
                  folderName, uiStatus, message, dialogOpen, extracting,
                  fetching >>

\* part_001:269-286: copyHtml goes on after writeText has settled
copySettles ==
  /\ copying > 0
  /\ copying' = copying - 1
  /\ \E m \in {Message("copied", "success"), Message("copyFailed", "error")} :
       message' = m
  /\ UNCHANGED << serverVars, fnVars, backendHost, uiFiles, processedHtml,
                  folderName, uiStatus, dialogOpen, extracting, fetching >>

\* part_001:32-39: the timer of the effect clears the message
dismissMessage ==
  /\ message # << >>
  /\ message' = << >>
  /\ UNCHANGED << serverVars, fnVars, backendHost, uiFiles, processedHtml,
                  folderName, uiStatus, dialogOpen, extracting, fetching,
                  copying >>

InitUI ==
  /\ InitServerIdle
  /\ argPath = << >>
  /\ argFiles = << >>
  /\ fnRes = NotApplied
  /\ backendHost \in BOOLEAN
  /\ InitApp

NextUI ==
  \/ \E f \in PickedFiles : onDrop(f)
  \/ openDialog
  \/ \E f \in PickedFiles : onFileSelect(f)
  \/ cancelDialog
  \/ \E i \in 1..MaxPending : extractZipSettles(i)
  \/ processFiles
  \/ \E i \in 1..MaxPending : fetchSettles(i)
  \/ reset
  \/ copyHtml
  \/ copySettles
  \/ dismissMessage

SpecUI == InitUI /\ [][NextUI]_vars

----------------------------------------------------------------------------
(* Properties of the pure functions *)

\* normalize as written in the design: backslashes to slashes, lowercase,
\* at most one leading ./ or ../ removed, kept from the first images/ found
\* at a position greater than zero
specifiedNormalize(p) ==
  LET n == stripLeadingDotSlash(toLowerCase(replaceBackslashes(p)))
      idx == indexOf(n, S_images)
  IN  IF idx > 0 THEN substring(n, idx) ELSE n

\* C4: normalizeImagePath computes the normalisation written in the design
\* (backslashes replaced, lowercased, one leading ./ or ../ stripped, kept
\* from the first images/ at a position > 0), so that ./Images/Foo.PNG,
\* images/Foo.PNG and ..\images\Foo.PNG all give images/foo.png.
C4_NormalizeAsSpecified ==
  fnRes.fn = "normalizeImagePath" => fnRes.out = specifiedNormalize(argPath)

containsIndexHtml(file) == includes(toLowerCase(file.originalname), S_index_html)
containsEmailHtml(file) == includes(toLowerCase(file.originalname), S_email_html)

\* the final /-delimited segment of a path
finalSegment(p) == substring(p, lastIndexOf(p, "/") + 1)

\* C5: when some entry's path contains index.html (in any casing), the
\* document selected, by the server and by the client alike, is an entry
\* whose path contains index.html, wherever it stands in the list.
C5_IndexHtmlWins ==
  (/\ fnRes.fn \in {"htmlFile", "clientHtmlFile"}
   /\ \E i \in 1..Len(argFiles) : containsIndexHtml(argFiles[i]))
  => /\ fnRes.out \in 1..Len(argFiles)
     /\ containsIndexHtml(argFiles[fnRes.out])

\* an index.html entry is selected although an email.html entry precedes it
C5_Witness ==
  /\ fnRes.fn = "htmlFile"
  /\ Len(argFiles) = 2
  /\ containsEmailHtml(argFiles[1])
  /\ ~containsIndexHtml(argFiles[1])
  /\ containsIndexHtml(argFiles[2])
  /\ fnRes.out = 2

\* C6: with no index.html entry, the selected document is the first entry
\* containing email.html; failing that the first entry whose final segment
\* ends in .html; failing that nothing is selected and the handler answers
\* NoDocumentFound.
C6_FallbackOrder ==
  (/\ fnRes.fn = "htmlFile"
   /\ \A i \in 1..Len(argFiles) : ~containsIndexHtml(argFiles[i]))
  => LET emails == {i \in 1..Len(argFiles) : containsEmailHtml(argFiles[i])}
         htmls == {i \in 1..Len(argFiles) :
                     endsWith(toLowerCase(finalSegment(argFiles[i].originalname)),
                              S_html)}
     IN  IF emails # {} THEN fnRes.out = Min(emails)
         ELSE IF htmls # {} THEN fnRes.out = Min(htmls)
         ELSE /\ fnRes.out = 0
              /\ Len(argFiles) > 0 => fnRes.outcome = "NoDocumentFound"

\* of two email.html entries the first is selected, before an .html entry
\* could be
C6_Witness ==
  /\ fnRes.fn = "htmlFile"
  /\ Len(argFiles) = 2
  /\ containsEmailHtml(argFiles[1])
  /\ containsEmailHtml(argFiles[2])
  /\ argFiles[1].originalname # argFiles[2].originalname
  /\ fnRes.out = 1

\* the acceptance predicate as written in the design
specifiedAccepts(file) ==
  /\ toLowerCase(extname(file.originalname)) \in ImageExtensions
  /\ \/ startsWith(specifiedNormalize(file.originalname), S_images)
     \/ file.fieldname = "images"

\* C10: an entry is collected iff its extension is png, jpg, jpeg, gif or
\* webp in any casing and either its normalized path starts with images/ or
\* its field is "images"; every other entry is left out.
C10_AcceptIff ==
  fnRes.fn = "imageFiles" => fnRes.out = SelectSeq(argFiles, specifiedAccepts)

\* a backslash path outside the images field is collected, a text file in
\* the images field is not
C10_Witness ==
  /\ fnRes.fn = "imageFiles"
  /\ Len(argFiles) = 2
  /\ includes(argFiles[1].originalname, <<"\\">>)
  /\ argFiles[1].fieldname = "file"
  /\ argFiles[2].fieldname = "images"
  /\ ~isImageFile(argFiles[2].originalname)
  /\ fnRes.out = << argFiles[1] >>

----------------------------------------------------------------------------
(* Properties of the /api/process handler *)

\* the indexes of the collected images of request r
Collected(r) == 1..Len(imageFiles(files[r]))

\* the indexes of the collected images whose upload resolved
Resolved(r) == {uploaded[r][j].pos : j \in 1..Len(uploaded[r])}

\* C1: when the upload of a collected image fails or the image is rejected,
\* the response is an error without html; a response with html exists only
\* when the upload of every collected image of the request succeeded.
C1_NoPartialHtml ==
  \A r \in Reqs :
    /\ rejected[r] # {} =>
         /\ response[r].status \in {400, 500}
         /\ "html" \notin response[r].keys
         /\ response[r].html = << >>
    /\ "html" \in response[r].keys =>
         /\ Collected(r) # {}
         /\ Resolved(r) = Collected(r)

\* the second image of a request fails after the first one was uploaded
C1_Witness ==
  \E r \in Reqs :
    /\ pc[r] = "done"
    /\ rejected[r] = {2}
    /\ Resolved(r) = {1}
    /\ response[r].status = 500

\* the parsed document of request r before rewriting
Tree(r) == load(htmlContent(files[r]))

\* the URLs the uploads of request r resolved with
UploadedUrls(r) == {uploaded[r][j].url : j \in 1..Len(uploaded[r])}

\* the prefixes a reference to images/X may carry
RefPrefixes ==
  { << >>, <<".", "/">>, <<".", ".", "/">>,
    <<"a", "s", "s", "e", "t", "s", "/">> }

\* the collected image is images/X: its path starts with images/, or it is a
\* bare file name sent in the images field
IsImagesX(file) ==
  \/ startsWith(toLowerCase(file.originalname), S_images)
  \/ /\ file.fieldname = "images"
     /\ ~includes(file.originalname, <<"/">>)
     /\ ~includes(file.originalname, <<"\\">>)

ImagesX(file) ==
  IF startsWith(toLowerCase(file.originalname), S_images)
  THEN toLowerCase(file.originalname)
  ELSE S_images \o toLowerCase(file.originalname)

\* ref is images/X in some casing, behind one of the prefixes
RefersTo(ref, file) ==
  /\ IsImagesX(file)
  /\ \E pre \in RefPrefixes : toLowerCase(ref) = pre \o ImagesX(file)

IsPreloadImage(node) ==
  node.tag = "link" /\ node.rel = "preload" /\ node.as = "image"

\* C2: after a successful conversion every img src and every preload-image
\* link href that is images/X (any casing, optional ./, ../ or directory
\* prefix) for a collected and uploaded image X holds a CDN URL of the
\* request, and the local path is gone from the attribute.
C2_RewritingComplete ==
  \A r \in Reqs :
    response[r].status = 200 =>
      \A k \in 1..Len(Tree(r)) : \A i \in Collected(r) :
        LET n == Tree(r)[k]
            o == response[r].html[k]
            f == imageFiles(files[r])[i]
        IN  /\ (n.tag = "img" /\ n.src # NoAttr /\ RefersTo(n.src, f))
               => (o.src \in UploadedUrls(r) /\ o.src # n.src)
            /\ (IsPreloadImage(n) /\ n.href # NoAttr /\ RefersTo(n.href, f))
               => (o.href \in UploadedUrls(r) /\ o.href # n.href)

\* the reference is one the rewriter replaces: it normalizes to a key of map
\* that starts with images/
Mapped(ref, map) ==
  /\ startsWith(normalizeImagePath(ref), S_images)
  /\ normalizeImagePath(ref) \in DOMAIN map

\* C3: the rewriter changes only the src of img elements and the href of
\* link[rel=preload][as=image] elements whose normalized value starts with
\* images/ and is a key of the map; everything else keeps its value, and a
\* request whose uploads all succeeded is answered with html even when
\* references are unmapped.
C3_OnlyMappedReferencesChange ==
  \A r \in Reqs :
    /\ response[r].status = 200 =>
         /\ Len(response[r].html) = Len(Tree(r))
         /\ \A k \in 1..Len(Tree(r)) :
              LET n == Tree(r)[k]
                  o == response[r].html[k]
              IN  /\ o.tag = n.tag /\ o.rel = n.rel /\ o.as = n.as
                  /\ o.src # n.src =>
                       /\ n.tag = "img"
                       /\ Mapped(n.src, imageUrlMap[r])
                       /\ o.src = imageUrlMap[r][normalizeImagePath(n.src)]
                  /\ o.href # n.href =>
                       /\ IsPreloadImage(n)
                       /\ Mapped(n.href, imageUrlMap[r])
                       /\ o.href = imageUrlMap[r][normalizeImagePath(n.href)]
    /\ (pc[r] = "done" /\ validation(files[r]) = "" /\ rejected[r] = {})
         => response[r].status = 200

\* a conversion succeeded that rewrote one img, left an unmapped images/
\* reference alone and left a script src naming a mapped image alone
C3_Witness ==
  \E r \in Reqs :
    /\ response[r].status = 200
    /\ \E k \in 1..Len(Tree(r)) : response[r].html[k].src # Tree(r)[k].src
    /\ \E k \in 1..Len(Tree(r)) :
         /\ Tree(r)[k].tag = "img"
         /\ startsWith(normalizeImagePath(Tree(r)[k].src), S_images)
         /\ normalizeImagePath(Tree(r)[k].src) \notin DOMAIN imageUrlMap[r]
         /\ response[r].html[k] = Tree(r)[k]
    /\ \E k \in 1..Len(Tree(r)) :
         /\ Tree(r)[k].tag = "script"
         /\ Mapped(Tree(r)[k].src, imageUrlMap[r])
         /\ response[r].html[k] = Tree(r)[k]

\* request r collected exactly two images, of identical non-empty bytes,
\* under names that give two different map keys
Twins(r) ==
  LET imgs == imageFiles(files[r])
  IN  /\ Len(imgs) = 2
      /\ imgs[1].buffer = imgs[2].buffer
      /\ Len(imgs[1].buffer) > 0
      /\ imagePath(imgs[1]) # imagePath(imgs[2])

TwinsShareUrl(r) ==
  /\ Cardinality(DOMAIN imageUrlMap[r]) = 2
  /\ \A k1, k2 \in DOMAIN imageUrlMap[r] :
       imageUrlMap[r][k1] = imageUrlMap[r][k2]

\* C7 as stated: a request with two images of identical bytes under
\* different names performs exactly one store call, builds two map entries,
\* and both hold the same URL.
C7_ExactlyOneStore ==
  \A r \in Reqs :
    (response[r].status = 200 /\ Twins(r)) =>
      /\ storeCalls[r] = 1
      /\ TwinsShareUrl(r)

\* C7 as amended: such a request builds two map entries holding the same
\* URL and leaves one stored asset for the bytes; with existence lookup
\* (signed mode) it makes at most one store call, none exactly when the
\* first probe already found the content; without lookup it makes two store
\* calls, both under the same public id.
C7_TwinsShareUrlStoreByMode ==
  \A r \in Reqs :
    (response[r].status = 200 /\ Twins(r)) =>
      /\ TwinsShareUrl(r)
      /\ uploaded[r][1].public_id = uploaded[r][2].public_id
      /\ Cardinality({a \in cloud : a.bytes = uploaded[r][1].bytes}) = 1
      /\ useSignedUpload =>
           /\ storeCalls[r] <= 1
           /\ storeCalls[r] = 0 <=> uploaded[r][1].via = "probe"
           /\ uploaded[r][2].via = "probe"
      /\ ~useSignedUpload => storeCalls[r] = 2

\* in signed mode the first twin is stored and the second is found by probe
C7_Witness ==
  \E r \in Reqs :
    /\ response[r].status = 200
    /\ Twins(r)
    /\ useSignedUpload
    /\ storeCalls[r] = 1
    /\ uploaded[r][1].via = "store"
    /\ uploaded[r][2].via = "probe"

\* every upload that resolved, in any request
AllUploads == UNION {{uploaded[r][j] : j \in 1..Len(uploaded[r])} : r \in Reqs}

\* C8: whatever the interleaving of uploads within and across requests,
\* uploads of the same bytes resolve with the same URL, and the account holds
\* exactly one asset for uploaded bytes, never two assets of the same
\* content.
C8_SameUrlOneRecord ==
  /\ \A u, v \in AllUploads : u.bytes = v.bytes => u.url = v.url
  /\ \A u \in AllUploads :
       Cardinality({a \in cloud : a.bytes = u.bytes}) = 1
  /\ \A a, b \in cloud : a.bytes = b.bytes => a = b

\* two requests raced: both probed before either stored, and both stored the
\* same bytes
C8_Witness ==
  /\ useSignedUpload
  /\ \E u, v \in AllUploads :
       /\ u.bytes = v.bytes
       /\ u.via = "store" /\ v.via = "store"
       /\ u.originalname # v.originalname
  /\ \E r1, r2 \in Reqs : r1 # r2 /\ storeCalls[r1] = 1 /\ storeCalls[r2] = 1

\* C9: the content identifier, the public id emails/{contentHash} and the
\* URL of an upload depend on the bytes alone: uploads of identical bytes
\* under different paths, casing or file names get the same ones.
C9_PathIndependence ==
  \A u, v \in AllUploads :
    /\ u.public_id = S_emails \o sha256hex(u.bytes)
    /\ u.bytes = v.bytes => (u.public_id = v.public_id /\ u.url = v.url)

\* the same bytes were uploaded as a.png in the images field and as
\* Images/A.PNG
C9_Witness ==
  \E u, v \in AllUploads :
    /\ u.bytes = v.bytes
    /\ u.originalname # v.originalname
    /\ toLowerCase(finalSegment(u.originalname))
         = toLowerCase(finalSegment(v.originalname))
    /\ u.public_id = v.public_id

\* C11: a request with a non-blank document and no collected image is
\* answered NoImagesFound: no probe or store call is made for it, no html is
\* returned, and no success ever carries an empty ImageUrlMap.
C11_NoImagesFound ==
  \A r \in Reqs :
    /\ (/\ pc[r] # "idle"
        /\ \E i \in 1..Len(files[r]) :
             \/ containsIndexHtml(files[r][i])
             \/ containsEmailHtml(files[r][i])
             \/ endsWith(toLowerCase(files[r][i].originalname), S_html)
        /\ htmlFile(files[r]) # 0
        /\ trim(htmlContent(files[r])) # << >>
        /\ \A i \in 1..Len(files[r]) : ~specifiedAccepts(files[r][i]))
       => /\ probeCalls[r] = 0 /\ storeCalls[r] = 0
          /\ uploaded[r] = << >>
          /\ pc[r] \in {"validate", "done"}
          /\ pc[r] = "done" =>
               /\ response[r].status = 400
               /\ response[r].error = "NoImagesFound"
               /\ "html" \notin response[r].keys
    /\ response[r].status = 200 => DOMAIN imageUrlMap[r] # {}

\* a document that came with a gif outside images/ and a text file in the
\* images field was answered NoImagesFound
C11_Witness ==
  \E r \in Reqs :
    /\ pc[r] = "done"
    /\ Len(files[r]) = 3
    /\ response[r].error = "NoImagesFound"
    /\ storeCalls[r] = 0 /\ probeCalls[r] = 0

\* the bundle {index.html with <img src="images/a.png">, images/a.png}
IsSingleImageBundle(fs) ==
  /\ Len(fs) = 2
  /\ fs[1].originalname = S_index_html
  /\ fs[2].originalname = S_images \o S_a_png
  /\ Len(fs[2].buffer) > 0

\* C12: a successful conversion returns as imageCount the number of entries
\* the collector accepted, not the number of distinct URLs or map keys; for
\* {index.html with <img src="images/a.png">, images/a.png of bytes B} it
\* returns imageCount 1 and an img src that is the URL stored under hash(B).
C12_ImageCount ==
  \A r \in Reqs :
    response[r].status = 200 =>
      /\ response[r].imageCount =
           Cardinality({i \in 1..Len(files[r]) : specifiedAccepts(files[r][i])})
      /\ IsSingleImageBundle(files[r]) =>
           /\ response[r].imageCount = 1
           /\ \A k \in 1..Len(Tree(r)) :
                (Tree(r)[k].tag = "img" /\ Tree(r)[k].src = S_images \o S_a_png)
                => /\ response[r].html[k].src =
                        S_cdn \o S_emails \o sha256hex(files[r][2].buffer)
                   /\ \E a \in cloud :
                        /\ a.bytes = files[r][2].buffer
                        /\ secure_url(a) = response[r].html[k].src

\* two images with the same lowercased basename and different bytes were
\* converted: imageCount is 2 while the map has one key and the uploads
\* resolved with two URLs
C12_Witness ==
  \E r \in Reqs :
    /\ response[r].status = 200
    /\ response[r].imageCount = 2
    /\ Cardinality(DOMAIN imageUrlMap[r]) = 1
    /\ Cardinality(UploadedUrls(r)) = 2

\* the collected images of request r for which uploadImageToCloudinary has
\* been called: those the loop is past, the one it is waiting for, and the one
\* whose upload threw
Started(r) ==
  {i \in Collected(r) :
     \/ i \in Resolved(r)
     \/ i = pos[r] /\ pc[r] \in {"probe", "store"}
     \/ i \in rejected[r] /\ Len(imageFiles(files[r])[i].buffer) > 0}

\* the collected images whose upload is awaited
InFlight(r) ==
  {i \in Collected(r) : i = pos[r] /\ pc[r] \in {"probe", "store"}}

ClientErrors ==
  {"NoFilesUploaded", "NoDocumentFound", "EmptyDocument", "NoImagesFound",
   "EmptyAsset"}

ServerErrors == {"UploadAuthFailed", "UploadTransportFailed"}

\* C14: NoFilesUploaded, NoDocumentFound, EmptyDocument, NoImagesFound and
\* EmptyAsset are answered as client errors (4xx), UploadAuthFailed and
\* UploadTransportFailed as server errors (5xx); every error response carries
\* a message and no html.
C14_StatusClasses ==
  \A r \in Reqs :
    /\ response[r].error \in ClientErrors => response[r].status \in 400..499
    /\ response[r].error \in ServerErrors => response[r].status \in 500..599
    /\ (pc[r] = "done" /\ response[r].status # 200)
         => /\ response[r].status \in 400..599
            /\ "error" \in response[r].keys
            /\ response[r].error # ""
            /\ "html" \notin response[r].keys
            /\ response[r].html = << >>

\* one request answered with a client error and one with a server error
C14_Witness ==
  \E r1 \in Reqs, r2 \in Reqs :
    /\ response[r1].error \in ClientErrors /\ response[r1].status = 400
    /\ response[r2].error \in ServerErrors /\ response[r2].status = 500

\* C15: a collected image of zero bytes is rejected as EmptyAsset before any
\* backend call is made for it (no probe or store is ever issued for an
\* empty buffer); the answer is a client error naming the filename, without
\* html.
C15_EmptyAssetRejectedFirst ==
  \A r \in Reqs :
    /\ pc[r] \in {"probe", "store"} => Len(current(r).buffer) > 0
    /\ \A k \in 1..Len(uploaded[r]) : Len(uploaded[r][k].bytes) > 0
    /\ probeCalls[r] + storeCalls[r] > 0
         => \E i \in Collected(r) :
              i <= pos[r] /\ Len(imageFiles(files[r])[i].buffer) > 0
    /\ (pc[r] = "done" /\ pos[r] \in Collected(r)
        /\ Len(current(r).buffer) = 0)
         => /\ response[r].error = "EmptyAsset"
            /\ response[r].status = 400
            /\ response[r].filename = finalSegment(current(r).originalname)
            /\ "html" \notin response[r].keys
            /\ probeCalls[r] + storeCalls[r]
                 <= 2 * Cardinality({i \in 1..(pos[r] - 1) :
                          Len(imageFiles(files[r])[i].buffer) > 0})
    /\ response[r].error = "EmptyAsset"
         => (pos[r] \in Collected(r) /\ Len(current(r).buffer) = 0)

\* an empty second image is rejected after the first has been uploaded
C15_Witness ==
  \E r \in Reqs :
    /\ response[r].error = "EmptyAsset"
    /\ pos[r] = 2
    /\ Len(uploaded[r]) = 1

AuthFailed(r) == response[r].error = "UploadAuthFailed"

\* C16: once an upload has failed with UploadAuthFailed the request is
\* answered with a server error and is over: no probe or store call is made
\* for it afterwards, neither for the remaining images nor again for the one
\* that failed.
C16_AuthFailureIsFatal ==
  [][\A r \in Reqs :
       /\ AuthFailed(r)' => (response'[r].status = 500 /\ pc'[r] = "done")
       /\ AuthFailed(r)
            => /\ response'[r] = response[r]
               /\ probeCalls'[r] = probeCalls[r]
               /\ storeCalls'[r] = storeCalls[r]
               /\ pos'[r] = pos[r]
               /\ uploaded'[r] = uploaded[r]]_vars

\* the credentials are rejected while images of the request remain
C16_Witness ==
  \E r \in Reqs :
    /\ AuthFailed(r)
    /\ pos[r] < Len(imageFiles(files[r]))
    /\ Started(r) # Collected(r)

TransportFailed(r) == response[r].error = "UploadTransportFailed"

\* C17: when the upload of one asset fails with UploadTransportFailed, the
\* request is answered with a server error and no html, and every other
\* upload of the request that had been started has completed: its asset is
\* in the store, under the bytes' key, and stays there.
C17_TransportFailureKeepsStarted ==
  \A r \in Reqs :
    TransportFailed(r)
      => /\ response[r].status = 500
         /\ "html" \notin response[r].keys
         /\ pc[r] = "done"
         /\ pos[r] \in rejected[r]
         /\ Started(r) \ {pos[r]} = Resolved(r)
         /\ \A i \in Started(r) \ {pos[r]} :
              \E a \in cloud :
                /\ a.bytes = imageFiles(files[r])[i].buffer
                /\ a.public_id = S_emails \o sha256hex(a.bytes)

\* the second upload of a request failed after the first had been stored
C17_Witness ==
  \E r \in Reqs :
    /\ TransportFailed(r)
    /\ pos[r] = 2
    /\ \E k \in 1..Len(uploaded[r]) : uploaded[r][k].via = "store"
    /\ cloud # {}

\* the conditions of the four validations, stated on the entries
HasNoFiles(fs) == Len(fs) = 0

HasNoDocument(fs) ==
  \A i \in 1..Len(fs) :
    /\ ~containsIndexHtml(fs[i])
    /\ ~containsEmailHtml(fs[i])
    /\ ~endsWith(toLowerCase(fs[i].originalname), S_html)

HasBlankDocument(fs) ==
  \A k \in 1..Len(htmlContent(fs)) : htmlContent(fs)[k] \in Whitespace

HasNoImages(fs) == \A i \in 1..Len(fs) : ~specifiedAccepts(fs[i])

\* the earliest violated condition in the order of the design, "" if none
EarliestViolation(fs) ==
  IF HasNoFiles(fs) THEN "NoFilesUploaded"
  ELSE IF HasNoDocument(fs) THEN "NoDocumentFound"
  ELSE IF HasBlankDocument(fs) THEN "EmptyDocument"
  ELSE IF HasNoImages(fs) THEN "NoImagesFound"
  ELSE ""

\* C18: the handler checks NoFilesUploaded, NoDocumentFound, EmptyDocument
\* and NoImagesFound in this order and answers with the earliest condition
\* the request violates; a probe or store call is made only for a request
\* that passed all four.
C18_ValidationOrder ==
  \A r \in Reqs :
    /\ pc[r] \in {"idle", "validate"} => probeCalls[r] + storeCalls[r] = 0
    /\ pc[r] \notin {"idle", "validate"}
         => /\ EarliestViolation(files[r]) # ""
                 => /\ pc[r] = "done"
                    /\ response[r].error = EarliestViolation(files[r])
                    /\ response[r].status = 400
                    /\ probeCalls[r] + storeCalls[r] = 0
                    /\ pos[r] = 0
            /\ EarliestViolation(files[r]) = ""
                 => /\ pos[r] >= 1
                    /\ response[r].error \notin
                         {"NoFilesUploaded", "NoDocumentFound",
                          "EmptyDocument", "NoImagesFound"}

\* a request with a blank document and no image is answered EmptyDocument,
\* and one with neither document nor image NoDocumentFound
C18_Witness ==
  \E r1, r2 \in Reqs :
    /\ pc[r1] = "done" /\ pc[r2] = "done"
    /\ ~HasNoFiles(files[r1]) /\ ~HasNoDocument(files[r1])
    /\ HasBlankDocument(files[r1]) /\ HasNoImages(files[r1])
    /\ response[r1].error = "EmptyDocument"
    /\ ~HasNoFiles(files[r2]) /\ HasNoDocument(files[r2])
    /\ HasNoImages(files[r2])
    /\ response[r2].error = "NoDocumentFound"

\* the keys the map of request r holds once every collected image is in it
FinalKeys(r) ==
  {normalizeImagePath(S_images \o finalSegment(imageFiles(files[r])[i].originalname)) :
     i \in Collected(r)}

\* C19: the rewriting of a request starts only after the upload of every
\* collected image has settled: when the rewriting step is taken no upload
\* of the request is in flight and the map holds an URL for every collected
\* image, and from then on the map does not change.
C19_RewriteAfterAllSettled ==
  [][\A r \in Reqs :
       /\ (response[r].status # 200 /\ response'[r].status = 200)
            => /\ pc[r] = "rewrite"
               /\ InFlight(r) = {}
               /\ Resolved(r) = Collected(r)
               /\ rejected[r] = {}
               /\ DOMAIN imageUrlMap[r] = FinalKeys(r)
               /\ imageUrlMap'[r] = imageUrlMap[r]
       /\ pc[r] \in {"rewrite", "done"}
            => /\ imageUrlMap'[r] = imageUrlMap[r]
               /\ uploaded'[r] = uploaded[r]
               /\ probeCalls'[r] = probeCalls[r]
               /\ storeCalls'[r] = storeCalls[r]]_vars

\* the document of a request with two images has been rewritten
C19_Witness ==
  \E r \in Reqs :
    /\ response[r].status = 200
    /\ Cardinality(Collected(r)) = 2
    /\ Cardinality(DOMAIN imageUrlMap[r]) = 2
    /\ \E k \in 1..Len(response[r].html) :
         startsWith(response[r].html[k].src, S_cdn)

\* the key the upload request r is waiting for is stored under
CurrentKey(r) == S_emails \o sha256hex(current(r).buffer)

\* C20: in signed mode every upload first probes emails/<hash>; when the
\* asset is found the upload resolves with its URL and no store call is
\* made, when it is not found exactly one store call follows, and when the
\* probe fails otherwise the upload fails; in unsigned mode no probe is made
\* and every upload is a store call.
C20_ProbeThenStore ==
  [][\A r \in Reqs :
       /\ (pc[r] = "loop" /\ pc'[r] = "probe")
            => (useSignedUpload /\ probeCalls'[r] = probeCalls[r] + 1
                /\ storeCalls'[r] = storeCalls[r])
       /\ (pc[r] = "loop" /\ pc'[r] = "store")
            => (~useSignedUpload /\ storeCalls'[r] = storeCalls[r] + 1
                /\ probeCalls'[r] = 0)
       /\ (pc[r] = "loop" /\ useSignedUpload) => pc'[r] # "store"
       /\ (pc[r] = "probe" /\ pc'[r] = "loop")
            => /\ \E a \in cloud : a.public_id = CurrentKey(r)
               /\ storeCalls'[r] = storeCalls[r]
               /\ cloud' = cloud
               /\ Len(uploaded'[r]) = Len(uploaded[r]) + 1
               /\ uploaded'[r][Len(uploaded'[r])].url = S_cdn \o CurrentKey(r)
               /\ uploaded'[r][Len(uploaded'[r])].via = "probe"
       /\ (pc[r] = "probe" /\ pc'[r] = "store")
            => /\ \A a \in cloud : a.public_id # CurrentKey(r)
               /\ storeCalls'[r] = storeCalls[r] + 1
               /\ response'[r] = response[r]
       /\ (pc[r] = "probe" /\ pc'[r] = "done")
            => /\ response'[r].status = 500
               /\ storeCalls'[r] = storeCalls[r]
               /\ uploaded'[r] = uploaded[r]
       /\ pc[r] = "probe" => pc'[r] \in {"probe", "loop", "store", "done"}
       /\ (pc[r] = "store" /\ pc'[r] # "store")
            => (storeCalls'[r] = storeCalls[r]
                /\ probeCalls'[r] = probeCalls[r])
       /\ ~useSignedUpload
            => /\ pc'[r] # "probe"
               /\ probeCalls'[r] = 0
               /\ Len(uploaded'[r]) > Len(uploaded[r])
                    => /\ pc[r] = "store"
                       /\ uploaded'[r][Len(uploaded'[r])].via = "store"
                       /\ \E a \in cloud' :
                            /\ a.public_id = CurrentKey(r)
                            /\ a.bytes = current(r).buffer]_vars

\* in signed mode one request has resolved an upload from the probe alone
\* and another has stored after a probe that found nothing
C20_Witness ==
  /\ useSignedUpload
  /\ \E r1, r2 \in Reqs :
       /\ Len(uploaded[r1]) = 1 /\ uploaded[r1][1].via = "probe"
       /\ probeCalls[r1] = 1 /\ storeCalls[r1] = 0
       /\ Len(uploaded[r2]) = 1 /\ uploaded[r2][1].via = "store"
       /\ probeCalls[r2] = 1 /\ storeCalls[r2] = 1

\* images/<basename> in lowercase, basename the final /-delimited segment
LogicalKey(name) == S_images \o toLowerCase(finalSegment(name))

\* C21: the key under which a collected image enters the map is
\* images/<basename> in lowercase, basename being the final /-delimited
\* segment of the original path, whatever the nesting of that path; no key
\* has a directory between images/ and the basename.
C21_KeyIsImagesBasename ==
  \A r \in Reqs :
    /\ \A k \in 1..Len(uploaded[r]) :
         LogicalKey(uploaded[r][k].originalname) \in DOMAIN imageUrlMap[r]
    /\ \A key \in DOMAIN imageUrlMap[r] :
         /\ \E k \in 1..Len(uploaded[r]) :
              key = LogicalKey(uploaded[r][k].originalname)
         /\ startsWith(key, S_images)
         /\ ~includes(substring(key, Len(S_images)), <<"/">>)
         /\ key = toLowerCase(key)

\* an image nested below images/ and one named in capitals are in the map
C21_Witness ==
  \E r1, r2 \in Reqs :
    /\ \E k \in 1..Len(uploaded[r1]) :
         /\ Len(uploaded[r1][k].originalname)
              > Len(LogicalKey(uploaded[r1][k].originalname))
         /\ LogicalKey(uploaded[r1][k].originalname) \in DOMAIN imageUrlMap[r1]
    /\ \E k \in 1..Len(uploaded[r2]) :
         /\ uploaded[r2][k].originalname
              # toLowerCase(uploaded[r2][k].originalname)
         /\ LogicalKey(uploaded[r2][k].originalname) \in DOMAIN imageUrlMap[r2]

\* the positions in the upload log of request r written under key
UploadsUnder(r, key) ==
  {k \in 1..Len(uploaded[r]) : LogicalKey(uploaded[r][k].originalname) = key}

\* C22: collected images of one request that share a lowercased basename
\* are all uploaded and all counted in imageCount, while the map holds one
\* entry for their key, whose value is the URL of the last of them in entry
\* order; the map never has more entries than imageCount.
C22_LastWriterWins ==
  \A r \in Reqs :
    /\ \A key \in DOMAIN imageUrlMap[r] :
         /\ UploadsUnder(r, key) # {}
         /\ imageUrlMap[r][key] = uploaded[r][Max(UploadsUnder(r, key))].url
    /\ Cardinality(DOMAIN imageUrlMap[r]) <= Len(uploaded[r])
    /\ response[r].status = 200
         => /\ Len(uploaded[r]) = response[r].imageCount
            /\ \A i \in Collected(r) :
                 /\ uploaded[r][i].originalname
                      = imageFiles(files[r])[i].originalname
                 /\ uploaded[r][i].bytes = imageFiles(files[r])[i].buffer
            /\ Cardinality(DOMAIN imageUrlMap[r]) <= response[r].imageCount

\* images/a/x.png and images/b/X.PNG of different content were both
\* uploaded, and the entry of images/x.png holds the URL of the second
C22_Witness ==
  \E r \in Reqs :
    /\ pc[r] = "done"
    /\ Len(uploaded[r]) = 2
    /\ uploaded[r][1].originalname # uploaded[r][2].originalname
    /\ UploadsUnder(r, LogicalKey(uploaded[r][1].originalname)) = {1, 2}
    /\ uploaded[r][1].url # uploaded[r][2].url
    /\ DOMAIN imageUrlMap[r] = {LogicalKey(uploaded[r][2].originalname)}
    /\ imageUrlMap[r][LogicalKey(uploaded[r][2].originalname)]
         = uploaded[r][2].url

\* C23: a bundle the client judges ready and submits passes the server's
\* validations: the handler answers none of NoFilesUploaded, NoDocumentFound
\* and NoImagesFound, and the document it selects is the one the client
\* selected, which travels as the first part of the request.
C23_ReadyBundlePassesValidation ==
  (fnRes.fn = "processFiles" /\ fnRes.ready)
    => /\ fnRes.outcome \notin
            {"NoFilesUploaded", "NoDocumentFound", "NoImagesFound"}
       /\ fnRes.serverDoc = 1

\* C24: in the design-editor UI at most one conversion request is in
\* flight at a time: while a request of processFiles has not settled, status
\* is converting and no second request is started.
C24_OneRequestInFlight ==
  /\ Len(fetching) <= 1
  /\ Len(fetching) = 1 => uiStatus = "converting"

\* a fetch of processFiles settles in this step
FetchSettled == Len(fetching') < Len(fetching)

\* C25: in the design-editor UI status done implies that processedHtml is
\* a non-empty document, and it was taken from an ok response that carried
\* it; status idle implies that files is empty and processedHtml is null; a
\* conversion that fails puts status to has-files with an error message and
\* leaves files as they are; reset puts files, processedHtml, folderName,
\* status and message back to their initial values.
C25_UiStateInvariant ==
  [][/\ uiStatus = "done" => (processedHtml # << >> /\ processedHtml[1] # << >>)
     /\ uiStatus' = "done" => (processedHtml' # << >> /\ processedHtml'[1] # << >>)
     /\ uiStatus = "idle" => (uiFiles = << >> /\ processedHtml = << >>)
     /\ uiStatus' = "idle" => (uiFiles' = << >> /\ processedHtml' = << >>)
     /\ (processedHtml' # processedHtml /\ processedHtml' # << >>)
          => /\ FetchSettled
             /\ uiStatus' = "done"
             /\ \E i \in 1..Len(fetching) :
                  \E result \in resultsOf[fetching[i]] :
                    /\ result.ok /\ result.status = 200
                    /\ result.html = processedHtml'[1]
     /\ (FetchSettled /\ uiStatus' # "done")
          => /\ uiStatus' = "has-files"
             /\ message' # << >>
             /\ message'[1].type = "error"
             /\ uiFiles' = uiFiles
             /\ processedHtml' = processedHtml
             /\ \E i \in 1..Len(fetching) :
                  \E result \in resultsOf[fetching[i]] :
                    ~result.ok \/ result.html = << >>
     /\ (FetchSettled /\ uiStatus' = "done")
          => \E i \in 1..Len(fetching) :
               \E result \in resultsOf[fetching[i]] :
                 /\ result.ok
                 /\ processedHtml' = << result.html >>
     /\ (uiStatus # "idle" /\ uiStatus' = "idle")
          => /\ uiFiles' = << >>
             /\ processedHtml' = << >>
             /\ folderName' = << >>
             /\ message' = << >>]_vars

\* a conversion has succeeded after an earlier one had failed: status is
\* done, the document is there and the error message is still shown
C25_Witness ==
  /\ uiStatus = "done"
  /\ processedHtml # << >>
  /\ uiFiles # << >>
  /\ message # << >>
  /\ message[1].type = "error"
  /\ fetching = << >>

====
